---- MODULE Spec2Model ----
(***************************************************************************)
(* Autonomous parking placement: the two engines of the repository,        *)
(* ParkingSystemStandard (src/BFSstandard.cpp, keeps every distance map)   *)
(* and ParkingSystemOptimized (src/BFSoptimized.cpp, accumulates while     *)
(* traversing), run one after the other on the same grid.                  *)
(***************************************************************************)
EXTENDS Integers, Sequences, FiniteSets, TLC

\* ------------------------------------------------------------------ bounds
\* grids of every shape with at most MaxCells cells are explored
MaxCells == 6
\* capacities of the circular queue and the values put into it
MaxCapacity == 3
MaxValue == 2
\* sides of the rotated matrices and rotation counts
MaxSide == 4
MaxRot == 13
\* number of intervals handed to merge and their largest endpoint
MaxIntervals == 3
MaxCoord == 3
\* number of words handed to minimalEncode
MaxWords == 4
\* number of formulas handed to solveFormulas
MaxFormulas == 4
\* number of cells of a Minesweeper board
MaxBoardCells == 6
\* number of cells of the grids on which whole queries are followed to their end
MaxLiveCells == 4

\* ------------------------------------------------------- program constants
Traversable == 0
Source == 1
Obstacle == 2
Unreached == -1
INT_MAX == 2147483647
NoCell == -1
NotFound == -1

\* the four moves of a traversal, in the order the code tries them
directions == << <<0, 1>>, <<1, 0>>, <<0, -1>>, <<-1, 0>> >>

\* the grid of both main() functions
MainRows == << <<1, 0, 2, 0, 1>>,
               <<0, 0, 0, 0, 0>>,
               <<0, 0, 1, 0, 0>> >>
MainGrid == [i \in 0..2 |-> [j \in 0..4 |-> MainRows[i + 1][j + 1]]]

VARIABLES
  grid,          \* grid[i][j] in {0, 1, 2}
  engine,        \* "standard" or "optimized": whose findOptimalSpot runs
  pc,            \* position inside findOptimalSpot
  parkingSpots,  \* the extracted source cells, row-major
  spot,          \* index of the source the for-loop over parkingSpots is at
  distance,      \* distance map of the running bfs
  q,             \* queue of the running bfs
  allDistances,  \* standard: the retained distance maps
  totalDist,     \* optimized: accumulated distances
  reachCount,    \* optimized: number of traversals that reached a cell
  bestDist, bestR, bestC,
  compared,      \* cells whose aggregate met `< bestDist`, with that aggregate
  ret,           \* value returned by findOptimalSpot
  results,       \* what each finished engine returned and printed
  run,           \* 1 for the first call of findOptimalSpot, 2 for a repeat
  previous       \* what the first call of the running engine returned

\* MyCircularQueue (src/DesignCircularQueue.cpp)
VARIABLES
  capacity, data, count, headIdx,   \* the fields of the object
  fifo,          \* the values enqueued with success and not yet dequeued
  cqLog          \* the last call: its name, result and what it found

\* HashMap (src/DesignHashMap.cpp)
VARIABLES
  bucket,        \* the chains, for the indices the explored keys hash to
  hmCrashed,     \* the process was ended by an access outside the bucket array
  dict,          \* per key, the value of its last put not followed by a remove
  hmLog          \* the last call and its result

\* rotateGrid (src/rotate_layer_matrix.cpp)
VARIABLES
  rotGrid,       \* the matrix `grid` being rotated in place
  rotK,          \* the argument k
  layer,         \* the loop variable of rotateGrid
  rotPc,         \* "layers" inside the loop, "done" after the return
  rotOrig        \* the matrix as it was passed

\* Solution::merge (src/merge_overlapping_intervals.cpp)
VARIABLES
  intervals,     \* the argument, sorted in place
  ans,           \* the result under construction
  mergeI,        \* the loop variable i
  mergePc,       \* "sort", "loop" or "done"
  mergeInput     \* the intervals as they were passed

\* minimalEncode (src/EncodeStrings.cpp)
VARIABLES
  words,         \* the argument
  result,        \* encoding -> word, as returned
  prefixLen,     \* word -> prefix length in use
  conflicts,     \* encoding -> words that produce it
  newConflicts,  \* the map built by the current pass of the while loop
  pending,       \* entries of conflicts the current pass has not visited yet
  hasConflicts,
  encPc          \* "step1", "while", "for" or "done"

\* solveFormulas (src/FormulaEvaluation.cpp)
VARIABLES
  formulas,      \* the argument
  values,        \* variable -> value
  varToExpr,     \* variable -> expression
  graph,         \* variable -> the variables its expression names
  allVars,
  visited,
  recStack,
  topoOrder,
  unsorted,      \* variables the loop over allVars has not reached yet
  evalI,         \* number of variables of topoOrder evaluated so far
  thrown,        \* the runtime_error that ended the call, or "none"
  fPc            \* "parse", "build", "check", "sort", "eval", "done", "error"

\* Minesweeper (src/minesweeper.cpp)
VARIABLES
  board,         \* cell <<r, c>> -> 'E', 'M', 'X', 'B' or a digit
  boardRows,     \* board.size()
  boardCols,     \* board[0].size()
  mineCounts     \* cell -> count, without entries until the first click

parkingVars == <<grid, engine, pc, parkingSpots, spot, distance, q,
                 allDistances, totalDist, reachCount, bestDist, bestR, bestC,
                 compared, ret, results, run, previous>>
queueVars == <<capacity, data, count, headIdx, fifo, cqLog>>
mapVars == <<bucket, hmCrashed, dict, hmLog>>
rotateVars == <<rotGrid, rotK, layer, rotPc, rotOrig>>
mergeVars == <<intervals, ans, mergeI, mergePc, mergeInput>>
formulaVars == <<formulas, values, varToExpr, graph, allVars, visited, recStack,
                 topoOrder, unsorted, evalI, thrown, fPc>>
mineVars == <<board, boardRows, boardCols, mineCounts>>
encodeVars == <<words, result, prefixLen, conflicts, newConflicts, pending,
                hasConflicts, encPc>>

\*## groups
vars == <<parkingVars, queueVars, mapVars, rotateVars, mergeVars, encodeVars, formulaVars, mineVars>>
exceptParking == <<queueVars, mapVars, rotateVars, mergeVars, encodeVars, formulaVars, mineVars>>
exceptQueue == <<parkingVars, mapVars, rotateVars, mergeVars, encodeVars, formulaVars, mineVars>>
exceptMap == <<parkingVars, queueVars, rotateVars, mergeVars, encodeVars, formulaVars, mineVars>>
exceptRotate == <<parkingVars, queueVars, mapVars, mergeVars, encodeVars, formulaVars, mineVars>>
exceptMerge == <<parkingVars, queueVars, mapVars, rotateVars, encodeVars, formulaVars, mineVars>>
exceptEncode == <<parkingVars, queueVars, mapVars, rotateVars, mergeVars, formulaVars, mineVars>>
exceptFormula == <<parkingVars, queueVars, mapVars, rotateVars, mergeVars, encodeVars, mineVars>>
exceptMine == <<parkingVars, queueVars, mapVars, rotateVars, mergeVars, encodeVars, formulaVars>>
\*## end groups

\* ----------------------------------------------------------------- helpers
NumRows(g) == Cardinality(DOMAIN g)
NumCols(g) == Cardinality(DOMAIN g[0])
Cells(g) == (0..(NumRows(g) - 1)) \X (0..(NumCols(g) - 1))

\* the order of `for i < m, for j < n`
RowMajor(g) ==
  [k \in 1..(NumRows(g) * NumCols(g)) |->
     <<(k - 1) \div NumCols(g), (k - 1) % NumCols(g)>>]

ConstMap(g, v) == [i \in DOMAIN g |-> [j \in DOMAIN g[0] |-> v]]
NoMap == <<>>
NoResult == [ret |-> -2, r |-> -2, c |-> -2]

ExtractSpots(g) == SelectSeq(RowMajor(g), LAMBDA c : g[c[1]][c[2]] = Source)

Shapes == {s \in (1..MaxCells) \X (1..MaxCells) : s[1] * s[2] <= MaxCells}
Grids ==
  UNION {[0..(s[1] - 1) -> [0..(s[2] - 1) -> {Traversable, Source, Obstacle}]] :
           s \in Shapes}

\* ------------------------------------------------------------------- bfs
\* slip: the obstacle test is forgotten
CanVisitIgnoringObstacles(g, dist, newRow, newCol) ==
  /\ newRow >= 0 /\ newRow < NumRows(g)
  /\ newCol >= 0 /\ newCol < NumCols(g)
  /\ dist[newRow][newCol] = Unreached

\* the test a neighbour must pass to be discovered
CanVisit(g, dist, newRow, newCol) ==
  /\ newRow >= 0 /\ newRow < NumRows(g)
  /\ newCol >= 0 /\ newCol < NumCols(g)
  /\ dist[newRow][newCol] = Unreached
  /\ g[newRow][newCol] # Obstacle

\* slip: the distance replaces the running total instead of adding to it
DiscoverOverwritingTotal(eng, st, row, col, newRow, newCol) ==
  LET d == st.distance[row][col] + 1
  IN [distance |-> [st.distance EXCEPT ![newRow][newCol] = d],
      q |-> Append(st.q, <<newRow, newCol>>),
      totalDist |-> IF eng = "optimized"
                     THEN [st.totalDist EXCEPT ![newRow][newCol] = d]
                     ELSE st.totalDist,
      reachCount |-> IF eng = "optimized"
                      THEN [st.reachCount EXCEPT ![newRow][newCol] = @ + 1]
                      ELSE st.reachCount]

\* what a discovery does to the bfs state; the optimized engine aggregates
Discover(eng, st, row, col, newRow, newCol) ==
  LET d == st.distance[row][col] + 1
  IN [distance |-> [st.distance EXCEPT ![newRow][newCol] = d],
      q |-> Append(st.q, <<newRow, newCol>>),
      totalDist |-> IF eng = "optimized"
                     THEN [st.totalDist EXCEPT ![newRow][newCol] = @ + d]
                     ELSE st.totalDist,
      reachCount |-> IF eng = "optimized"
                      THEN [st.reachCount EXCEPT ![newRow][newCol] = @ + 1]
                      ELSE st.reachCount]

\* the for-loop over directions for one dequeued cell
RECURSIVE Explore(_, _, _, _, _, _)
Explore(eng, g, row, col, k, st) ==
  IF k > Len(directions) THEN st
  ELSE LET newRow == row + directions[k][1]
           newCol == col + directions[k][2]
       IN IF CanVisit(g, st.distance, newRow, newCol)
          THEN Explore(eng, g, row, col, k + 1,
                       Discover(eng, st, row, col, newRow, newCol))
          ELSE Explore(eng, g, row, col, k + 1, st)

\* ------------------------------------------------------------- selection
\* slip: a later candidate with an equal aggregate replaces the best
BetterOrEqual(total, best) == total <= best

\* the comparison against the running best
Better(total, best) == total < best

\* slip: one source reaching the cell is taken to be enough
ReachedByAny(reach, numSpots) == reach > 0

\* the all-sources test
ReachedByAll(reach, numSpots) == reach = numSpots

\* the statement marked SUM in the standard engine
Accumulate(total, d) == d

\* standard: the loop over k for one cell; yields totalDist and reach
RECURSIVE AggregateLoop(_, _, _, _, _)
AggregateLoop(all, i, j, k, acc) ==
  IF k > Len(all) THEN acc
  ELSE IF all[k][i][j] = Unreached THEN acc
  ELSE AggregateLoop(all, i, j, k + 1,
                     [totalDist |-> Accumulate(acc.totalDist, all[k][i][j]),
                      reach |-> acc.reach + 1])

StandardView(all, i, j) ==
  AggregateLoop(all, i, j, 1, [totalDist |-> 0, reach |-> 0])

\* optimized: what the selector reads for one cell
OptimizedView(total, reach, i, j) ==
  [totalDist |-> total[i][j], reach |-> reach[i][j]]

\* one iteration of the double loop over the cells
Consider(g, numSpots, view, i, j, best) ==
  IF g[i][j] = Obstacle THEN best
  ELSE IF ReachedByAll(view.reach, numSpots)
       THEN LET seen == best.compared \cup {<<i, j, view.totalDist>>}
            IN IF Better(view.totalDist, best.bestDist)
               THEN [bestDist |-> view.totalDist, bestR |-> i, bestC |-> j,
                     compared |-> seen]
               ELSE [best EXCEPT !.compared = seen]
       ELSE best

RECURSIVE SelectLoop(_, _, _, _, _, _, _, _)
SelectLoop(eng, g, numSpots, all, total, reach, k, best) ==
  IF k > Len(RowMajor(g)) THEN best
  ELSE LET i == RowMajor(g)[k][1]
           j == RowMajor(g)[k][2]
           view == IF g[i][j] = Obstacle THEN [totalDist |-> 0, reach |-> 0]
                   ELSE IF eng = "standard" THEN StandardView(all, i, j)
                   ELSE OptimizedView(total, reach, i, j)
       IN SelectLoop(eng, g, numSpots, all, total, reach, k + 1,
                     Consider(g, numSpots, view, i, j, best))

\* ---------------------------------------------------------------- actions
\* no object of the program exists
NoLog == [op |-> "none"]
QueueIdle ==
  /\ capacity = 0 /\ data = <<>> /\ count = 0 /\ headIdx = 0
  /\ fifo = <<>> /\ cqLog = NoLog

MapIdle ==
  /\ bucket = <<>> /\ hmCrashed = FALSE /\ dict = <<>> /\ hmLog = NoLog

RotateIdle ==
  /\ rotGrid = <<>> /\ rotK = 0 /\ layer = 0 /\ rotPc = "idle"
  /\ rotOrig = <<>>

MergeIdle ==
  /\ intervals = <<>> /\ ans = <<>> /\ mergeI = 0 /\ mergePc = "idle"
  /\ mergeInput = <<>>

\* an unordered_map without entries
NoEntries == [e \in {} |-> <<>>]

EncodeIdle ==
  /\ words = <<>> /\ result = NoEntries /\ prefixLen = NoEntries
  /\ conflicts = NoEntries /\ newConflicts = NoEntries /\ pending = {}
  /\ hasConflicts = FALSE /\ encPc = "idle"

FormulaIdle ==
  /\ formulas = <<>> /\ values = NoEntries /\ varToExpr = NoEntries
  /\ graph = NoEntries /\ allVars = {} /\ visited = {} /\ recStack = {}
  /\ topoOrder = <<>> /\ unsorted = {} /\ evalI = 0 /\ thrown = "none"
  /\ fPc = "idle"

MineIdle ==
  /\ board = NoEntries /\ boardRows = 0 /\ boardCols = 0
  /\ mineCounts = NoEntries

\*## parking idle others
OthersIdleForParking == QueueIdle /\ MapIdle /\ RotateIdle /\ MergeIdle /\ EncodeIdle /\ FormulaIdle /\ MineIdle
\*## end

Init ==
  /\ OthersIdleForParking
  /\ grid \in Grids \cup {MainGrid}
  /\ engine = "standard"
  /\ pc = "init"
  /\ parkingSpots = <<>>
  /\ spot = 0
  /\ distance = NoMap
  /\ q = <<>>
  /\ allDistances = <<>>
  /\ totalDist = NoMap
  /\ reachCount = NoMap
  /\ bestDist = INT_MAX /\ bestR = NoCell /\ bestC = NoCell
  /\ compared = {}
  /\ ret = NoResult.ret
  /\ results = [e \in {"standard", "optimized"} |-> NoResult]
  /\ run = 1
  /\ previous = NoResult

\* slip: the accumulators live on across calls instead of being constructed
ExtractKeepingAccumulators ==
  /\ pc = "init"
  /\ parkingSpots' = ExtractSpots(grid)
  /\ spot' = 1
  /\ allDistances' = <<>>
  /\ totalDist' = IF engine = "optimized" /\ totalDist = NoMap
                   THEN ConstMap(grid, 0) ELSE totalDist
  /\ reachCount' = IF engine = "optimized" /\ reachCount = NoMap
                    THEN ConstMap(grid, 0) ELSE reachCount
  /\ pc' = "traverse"
  /\ UNCHANGED <<grid, engine, distance, q, bestDist, bestR, bestC,
                 compared, ret, results>>
  /\ UNCHANGED <<run, previous>>
  /\ UNCHANGED exceptParking

\* extraction of the parking spots and construction of the accumulators
Extract ==
  /\ pc = "init"
  /\ parkingSpots' = ExtractSpots(grid)
  /\ spot' = 1
  /\ allDistances' = <<>>
  /\ totalDist' = IF engine = "optimized" THEN ConstMap(grid, 0) ELSE NoMap
  /\ reachCount' = IF engine = "optimized" THEN ConstMap(grid, 0) ELSE NoMap
  /\ pc' = "traverse"
  /\ UNCHANGED <<grid, engine, distance, q, bestDist, bestR, bestC,
                 compared, ret, results>>
  /\ UNCHANGED <<run, previous>>
  /\ UNCHANGED exceptParking

\* slip: the start is pushed without its distance being set
BfsBeginUnseeded ==
  /\ pc = "traverse"
  /\ spot <= Len(parkingSpots)
  /\ LET start == parkingSpots[spot]
     IN /\ distance' = ConstMap(grid, Unreached)
        /\ q' = <<start>>
  /\ pc' = "bfs"
  /\ UNCHANGED <<grid, engine, parkingSpots, spot, allDistances, totalDist,
                 reachCount, bestDist, bestR, bestC, compared, ret, results>>
  /\ UNCHANGED <<run, previous>>
  /\ UNCHANGED exceptParking

\* entry of bfs for the next parking spot
BfsBegin ==
  /\ pc = "traverse"
  /\ spot <= Len(parkingSpots)
  /\ LET start == parkingSpots[spot]
     IN /\ distance' = [ConstMap(grid, Unreached)
                          EXCEPT ![start[1]][start[2]] = 0]
        /\ q' = <<start>>
  /\ pc' = "bfs"
  /\ UNCHANGED <<grid, engine, parkingSpots, spot, allDistances, totalDist,
                 reachCount, bestDist, bestR, bestC, compared, ret, results>>
  /\ UNCHANGED <<run, previous>>
  /\ UNCHANGED exceptParking

\* slip: the dequeued cell is marked in the grid itself
BfsStepMarkingGrid ==
  /\ pc = "bfs"
  /\ q # <<>>
  /\ LET front == Head(q)
         st == Explore(engine, grid, front[1], front[2], 1,
                       [distance |-> distance, q |-> Tail(q),
                        totalDist |-> totalDist, reachCount |-> reachCount])
     IN /\ distance' = st.distance
        /\ q' = st.q
        /\ totalDist' = st.totalDist
        /\ reachCount' = st.reachCount
        /\ grid' = [grid EXCEPT ![front[1]][front[2]] = Obstacle]
  /\ UNCHANGED <<engine, pc, parkingSpots, spot, allDistances,
                 bestDist, bestR, bestC, compared, ret, results>>
  /\ UNCHANGED <<run, previous>>
  /\ UNCHANGED exceptParking

\* one iteration of while(!q.empty())
BfsStep ==
  /\ pc = "bfs"
  /\ q # <<>>
  /\ LET front == Head(q)
         st == Explore(engine, grid, front[1], front[2], 1,
                       [distance |-> distance, q |-> Tail(q),
                        totalDist |-> totalDist, reachCount |-> reachCount])
     IN /\ distance' = st.distance
        /\ q' = st.q
        /\ totalDist' = st.totalDist
        /\ reachCount' = st.reachCount
  /\ UNCHANGED <<grid, engine, pc, parkingSpots, spot, allDistances,
                 bestDist, bestR, bestC, compared, ret, results>>
  /\ UNCHANGED <<run, previous>>
  /\ UNCHANGED exceptParking

\* bfs returns: the standard engine keeps the map, the optimized drops it
BfsReturn ==
  /\ pc = "bfs"
  /\ q = <<>>
  /\ allDistances' = IF engine = "standard"
                     THEN Append(allDistances, distance)
                     ELSE allDistances
  /\ distance' = NoMap
  /\ spot' = spot + 1
  /\ pc' = "traverse"
  /\ UNCHANGED <<grid, engine, parkingSpots, q, totalDist, reachCount,
                 bestDist, bestR, bestC, compared, ret, results>>
  /\ UNCHANGED <<run, previous>>
  /\ UNCHANGED exceptParking

\* slip: the search starts as soon as one traversal has finished
SelectAfterFirstTraversal ==
  /\ pc = "traverse"
  /\ spot > 1
  /\ LET best == SelectLoop(engine, grid, Len(parkingSpots), allDistances,
                            totalDist, reachCount, 1,
                            [bestDist |-> INT_MAX, bestR |-> NoCell,
                             bestC |-> NoCell, compared |-> {}])
         r == IF best.bestR = NoCell THEN NotFound ELSE best.bestDist
     IN /\ bestDist' = best.bestDist
        /\ bestR' = best.bestR
        /\ bestC' = best.bestC
        /\ compared' = best.compared
        /\ ret' = r
        /\ results' = [results EXCEPT ![engine] =
                         [ret |-> r, r |-> best.bestR, c |-> best.bestC]]
  /\ pc' = "done"
  /\ UNCHANGED <<grid, engine, parkingSpots, spot, distance, q, allDistances,
                 totalDist, reachCount>>
  /\ UNCHANGED <<run, previous>>
  /\ UNCHANGED exceptParking

\* the search for the optimal location and the return
Select ==
  /\ pc = "traverse"
  /\ spot > Len(parkingSpots)
  /\ LET best == SelectLoop(engine, grid, Len(parkingSpots), allDistances,
                            totalDist, reachCount, 1,
                            [bestDist |-> INT_MAX, bestR |-> NoCell,
                             bestC |-> NoCell, compared |-> {}])
         r == IF best.bestR = NoCell THEN NotFound ELSE best.bestDist
     IN /\ bestDist' = best.bestDist
        /\ bestR' = best.bestR
        /\ bestC' = best.bestC
        /\ compared' = best.compared
        /\ ret' = r
        /\ results' = [results EXCEPT ![engine] =
                         [ret |-> r, r |-> best.bestR, c |-> best.bestC]]
  /\ pc' = "done"
  /\ UNCHANGED <<grid, engine, parkingSpots, spot, distance, q, allDistances,
                 totalDist, reachCount>>
  /\ UNCHANGED <<run, previous>>
  /\ UNCHANGED exceptParking

\* the second approach is run on the same grid
RunOptimized ==
  /\ pc = "done"
  /\ engine = "standard"
  /\ engine' = "optimized"
  /\ pc' = "init"
  /\ parkingSpots' = <<>>
  /\ spot' = 0
  /\ distance' = NoMap
  /\ q' = <<>>
  /\ allDistances' = <<>>
  /\ totalDist' = NoMap
  /\ reachCount' = NoMap
  /\ bestDist' = INT_MAX /\ bestR' = NoCell /\ bestC' = NoCell
  /\ compared' = {}
  /\ ret' = NoResult.ret
  /\ run' = 1
  /\ previous' = NoResult
  /\ UNCHANGED <<grid, results>>
  /\ UNCHANGED exceptParking

\* findOptimalSpot is called once more on the same object and grid; nothing
\* is reset here, every local is constructed by the call itself
RunAgain ==
  /\ pc = "done"
  /\ run = 1
  /\ run' = 2
  /\ previous' = results[engine]
  /\ pc' = "init"
  /\ UNCHANGED <<grid, engine, parkingSpots, spot, distance, q, allDistances,
                 totalDist, reachCount, bestDist, bestR, bestC, compared, ret,
                 results>>
  /\ UNCHANGED exceptParking

Next ==
  \/ Extract
  \/ BfsBegin
  \/ BfsStep
  \/ BfsReturn
  \/ Select
  \/ RunOptimized
  \/ RunAgain

Spec == Init /\ [][Next]_vars

\* ------------------------------------------- the query as one function
\* bfs run to its end: the while-loop until the queue is empty
RECURSIVE BfsLoop(_, _, _)
BfsLoop(eng, g, st) ==
  IF st.q = <<>> THEN st
  ELSE BfsLoop(eng, g,
               Explore(eng, g, Head(st.q)[1], Head(st.q)[2], 1,
                       [st EXCEPT !.q = Tail(st.q)]))

\* one call of bfs from `start`, with the accumulators it is handed
Traverse(eng, g, start, total, reach) ==
  BfsLoop(eng, g,
          [distance |-> [ConstMap(g, Unreached)
                           EXCEPT ![start[1]][start[2]] = 0],
           q |-> <<start>>, totalDist |-> total, reachCount |-> reach])

\* the loop over the parking spots, in the order of the list `spots`
RECURSIVE RunTraversals(_, _, _, _, _)
RunTraversals(eng, g, spots, k, acc) ==
  IF k > Len(spots) THEN acc
  ELSE LET st == Traverse(eng, g, spots[k], acc.totalDist, acc.reachCount)
       IN RunTraversals(eng, g, spots, k + 1,
            [all |-> IF eng = "standard" THEN Append(acc.all, st.distance)
                     ELSE acc.all,
             totalDist |-> st.totalDist,
             reachCount |-> st.reachCount])

\* findOptimalSpot on grid g with the parking spots taken in the order `spots`
Query(eng, g, spots) ==
  LET acc == RunTraversals(eng, g, spots, 1,
               [all |-> <<>>,
                totalDist |-> IF eng = "optimized" THEN ConstMap(g, 0)
                              ELSE NoMap,
                reachCount |-> IF eng = "optimized" THEN ConstMap(g, 0)
                               ELSE NoMap])
  IN SelectLoop(eng, g, Len(spots), acc.all, acc.totalDist, acc.reachCount,
                1, [bestDist |-> INT_MAX, bestR |-> NoCell,
                    bestC |-> NoCell, compared |-> {}])

\* ------------------------------------------------ reference definitions
\* 4-connected adjacency
Adjacent(a, b) ==
  \/ a[1] = b[1] /\ (a[2] = b[2] + 1 \/ b[2] = a[2] + 1)
  \/ a[2] = b[2] /\ (a[1] = b[1] + 1 \/ b[1] = a[1] + 1)

\* hop count of c, growing the set of cells within `level` hops of the start
RECURSIVE HopsFrom(_, _, _, _)
HopsFrom(g, within, level, c) ==
  IF c \in within THEN level
  ELSE LET next == within \cup
                     {d \in Cells(g) : /\ g[d[1]][d[2]] # Obstacle
                                       /\ \E e \in within : Adjacent(e, d)}
       IN IF next = within THEN Unreached
          ELSE HopsFrom(g, next, level + 1, c)

ShortestHops(g, s, c) == HopsFrom(g, {s}, 0, c)

SourceCells(g) == {c \in Cells(g) : g[c[1]][c[2]] = Source}

\* c can be reached from every source of the grid
EveryReaches(g, c) ==
  \A s \in SourceCells(g) : ShortestHops(g, s, c) # Unreached

\* the non-Obstacle cells every source reaches
Eligible(g) ==
  {c \in Cells(g) : g[c[1]][c[2]] # Obstacle /\ EveryReaches(g, c)}

RECURSIVE SumHops(_, _, _, _)
SumHops(g, spots, k, c) ==
  IF k > Len(spots) THEN 0
  ELSE ShortestHops(g, spots[k], c) + SumHops(g, spots, k + 1, c)

\* total of the hop distances from all sources to c
SumOfHops(g, c) == SumHops(g, ExtractSpots(g), 1, c)

MinOf(S) == CHOOSE v \in S : \A w \in S : v <= w

\* row-major order on cells
Precedes(a, b) == a[1] < b[1] \/ (a[1] = b[1] /\ a[2] < b[2])

StandardDone == results["standard"] # NoResult
BothDone == engine = "optimized" /\ pc = "done"

\* ------------------------------------------------------------------ claims
\* C1: for the Sum strategy the standard (materialized) and the optimized
\* (streaming) findOptimalSpot return the same cell and the same value, or
\* both report that no valid location exists, on every grid.
C1_ModesAgree ==
  BothDone => results["standard"] = results["optimized"]

\* C2: on the 3x5 grid of main() both engines select cell (1,2).
C2_MainGridSelectsCentre ==
  (BothDone /\ grid = MainGrid) =>
     /\ results["standard"].r = 1 /\ results["standard"].c = 2
     /\ results["optimized"].r = 1 /\ results["optimized"].c = 2

\* C3: a cell that some source cannot reach is never selected and never has
\* its aggregate compared against the running best, in either engine.
C3_UnreachedNeverCompared ==
  pc = "done" =>
     /\ bestR # NoCell => EveryReaches(grid, <<bestR, bestC>>)
     /\ \A t \in compared : EveryReaches(grid, <<t[1], t[2]>>)

\* a selection was made by both engines on a grid that has a non-Obstacle
\* cell out of reach of some source
C3_Witness ==
  /\ BothDone
  /\ bestR # NoCell
  /\ results["standard"].r # NoCell
  /\ \E c \in Cells(grid) :
        grid[c[1]][c[2]] # Obstacle /\ ~EveryReaches(grid, c)

\* C4: in the standard engine the aggregate of every compared candidate is
\* the total of its hop distances from all sources, and the returned value
\* is the minimum of that total over the non-Obstacle cells every source
\* reaches.
C4_StandardReturnsMinimalSum ==
  (engine = "standard" /\ pc = "done") =>
     /\ \A t \in compared : t[3] = SumOfHops(grid, <<t[1], t[2]>>)
     /\ Eligible(grid) # {} =>
          ret = MinOf({SumOfHops(grid, c) : c \in Eligible(grid)})

\* C5: on a grid with exactly one Source cell both engines select that cell
\* with aggregate value 0.
C5_SingleSourceSelectsItself ==
  (BothDone /\ Len(parkingSpots) = 1) =>
     \A e \in {"standard", "optimized"} :
        results[e] = [ret |-> 0, r |-> parkingSpots[1][1],
                      c |-> parkingSpots[1][2]]

\* C6: a query returns NotFound exactly when no non-Obstacle cell is reachable
\* by every source, and the NotFound outcome never equals the aggregate value
\* of a valid selection.
C6_NotFoundIffNothingEligible ==
  pc = "done" =>
     /\ (ret = NotFound) <=> (Eligible(grid) = {})
     /\ bestR # NoCell => ret # NotFound

C8_SourceCellsAreCandidates ==
  pc = "done" =>
     /\ bestR # NoCell => grid[bestR][bestC] # Obstacle
     /\ \A c \in Eligible(grid) :
           \E t \in compared : <<t[1], t[2]>> = c

\* C9: when a traversal ends its distance map gives 0 to the source, the
\* shortest hop count to every cell reachable through 4-connected non-Obstacle
\* cells, and the unreached sentinel to every Obstacle and unreachable cell.
C9_DistanceMapIsShortestHops ==
  (pc = "bfs" /\ q = <<>>) =>
     LET start == parkingSpots[spot]
     IN /\ distance[start[1]][start[2]] = 0
        /\ \A c \in Cells(grid) :
              /\ distance[c[1]][c[2]] = ShortestHops(grid, start, c)
              /\ grid[c[1]][c[2]] = Obstacle =>
                   distance[c[1]][c[2]] = Unreached

\* a finished traversal of the optimized engine that went at least three hops
\* and left a non-Obstacle cell unreached
C9_Witness ==
  /\ pc = "bfs" /\ q = <<>>
  /\ engine = "optimized"
  /\ \E c \in Cells(grid) : distance[c[1]][c[2]] >= 3
  /\ \E c \in Cells(grid) :
        grid[c[1]][c[2]] # Obstacle /\ distance[c[1]][c[2]] = Unreached

\* ---------------------------------------------- further reference notions
Max2(a, b) == IF a >= b THEN a ELSE b

RECURSIVE MaxHops(_, _, _, _)
MaxHops(g, spots, k, c) ==
  IF k > Len(spots) THEN 0
  ELSE Max2(ShortestHops(g, spots[k], c), MaxHops(g, spots, k + 1, c))

\* the largest hop distance from any source to c
MaxOfHops(g, c) == MaxHops(g, ExtractSpots(g), 1, c)

\* the list `spots` reordered by the permutation p of its indices
Reorder(spots, p) == [k \in 1..Len(spots) |-> spots[p[k]]]

\* grid g with cell x turned into a Source
WithSource(g, x) == [g EXCEPT ![x[1]][x[2]] = Source]

Outcome(best) == <<best.bestDist, best.bestR, best.bestC>>

\* C11: under Minimax the standard engine's aggregate of a candidate is the
\* maximum of its per-source distances and the value returned is the lowest
\* such maximum over the non-Obstacle cells every source reaches.
C11_StandardMinimax ==
  (engine = "standard" /\ pc = "done") =>
     /\ \A t \in compared : t[3] = MaxOfHops(grid, <<t[1], t[2]>>)
     /\ Eligible(grid) # {} =>
          ret = MinOf({MaxOfHops(grid, c) : c \in Eligible(grid)})

\* C12: taking the parking spots in any other order leaves the selected cell
\* and the aggregate value unchanged, in either engine.
C12_SourceOrderIrrelevant ==
  BothDone =>
     \A e \in {"standard", "optimized"} :
        \A p \in Permutations(1..Len(parkingSpots)) :
           Outcome(Query(e, grid, Reorder(parkingSpots, p)))
             = Outcome(Query(e, grid, parkingSpots))

\* C14: turning a Traversable cell into one more Source never lowers the
\* aggregate of a candidate that every source reaches before and after.
C14_AddedSourceNeverLowers ==
  BothDone =>
     \A e \in {"standard", "optimized"} :
        \A x \in {c \in Cells(grid) : grid[c[1]][c[2]] = Traversable} :
           LET before == Query(e, grid, parkingSpots).compared
               after == Query(e, WithSource(grid, x),
                              ExtractSpots(WithSource(grid, x))).compared
           IN \A t \in before : \A u \in after :
                 (t[1] = u[1] /\ t[2] = u[2]) => u[3] >= t[3]

\* C13: a second call of findOptimalSpot on the same grid returns the same
\* cell and value as the first: nothing of the first query is visible to it.
C13_RepeatedQuerySameResult ==
  (pc = "done" /\ run = 2) => results[engine] = previous

\* the optimized engine ended a repeated query on a grid with several
\* sources with a selection
C13_Witness ==
  /\ pc = "done" /\ run = 2
  /\ engine = "optimized"
  /\ Len(parkingSpots) >= 2
  /\ bestR # NoCell

\* ========================================================================
\* MyCircularQueue (src/DesignCircularQueue.cpp)
\* ========================================================================
ParkingIdle ==
  /\ grid = <<>> /\ engine = "none" /\ pc = "idle"
  /\ parkingSpots = <<>> /\ spot = 0 /\ distance = NoMap /\ q = <<>>
  /\ allDistances = <<>> /\ totalDist = NoMap /\ reachCount = NoMap
  /\ bestDist = INT_MAX /\ bestR = NoCell /\ bestC = NoCell
  /\ compared = {} /\ ret = NoResult.ret /\ results = <<>>
  /\ run = 0 /\ previous = NoResult

\*## queue idle others
OthersIdleForQueue == ParkingIdle /\ MapIdle /\ RotateIdle /\ MergeIdle /\ EncodeIdle /\ FormulaIdle /\ MineIdle
\*## end

EmptyAnswer == -1
Values == 1..MaxValue

isEmpty == count = 0

\* slip: the queue counts as full only above its capacity
isFullAboveCapacity == count > capacity

isFull == count = capacity

\* slip: the rear position is computed without the head position
TailSlotIgnoringHead(h, c, cap) == c % cap

\* the slot enQueue writes
TailSlot(h, c, cap) == (h + c) % cap

\* the head after deQueue
NextHead(h, cap) == (h + 1) % cap

Front == IF isEmpty THEN EmptyAnswer ELSE data[headIdx]
Rear == IF isEmpty THEN EmptyAnswer
        ELSE data[(headIdx + count - 1) % capacity]

\* the record of a call; slot and reuse are -1 where they do not apply
Call(op, arg, r, wasFull, head, slot, reuse) ==
  [op |-> op, arg |-> arg, ret |-> r, wasFull |-> wasFull, head |-> head,
   slot |-> slot, reuse |-> reuse]

\* the slot the preceding call freed, if that was a deQueue on a full queue
FreedByLastCall ==
  IF cqLog.op = "deQueue" /\ cqLog.ret = TRUE /\ cqLog.wasFull
  THEN cqLog.head ELSE -1

InitQueue ==
  /\ OthersIdleForQueue
  /\ capacity \in 1..MaxCapacity
  /\ data = [i \in 0..(capacity - 1) |-> 0]
  /\ count = 0
  /\ headIdx = 0
  /\ fifo = <<>>
  /\ cqLog = Call("new", capacity, TRUE, FALSE, 0, -1, -1)

enQueue(value) ==
  /\ IF isFull
     THEN /\ cqLog' = Call("enQueue", value, FALSE, TRUE, headIdx, -1,
                           FreedByLastCall)
          /\ UNCHANGED <<data, count, fifo>>
     ELSE /\ data' = [data EXCEPT ![TailSlot(headIdx, count, capacity)] = value]
          /\ count' = count + 1
          /\ fifo' = Append(fifo, value)
          /\ cqLog' = Call("enQueue", value, TRUE, FALSE, headIdx,
                           TailSlot(headIdx, count, capacity),
                           FreedByLastCall)
  /\ UNCHANGED <<capacity, headIdx>>
  /\ UNCHANGED exceptQueue

deQueue ==
  /\ IF isEmpty
     THEN /\ cqLog' = Call("deQueue", 0, FALSE, isFull, headIdx, -1, -1)
          /\ UNCHANGED <<headIdx, count, fifo>>
     ELSE /\ headIdx' = NextHead(headIdx, capacity)
          /\ count' = count - 1
          /\ fifo' = Tail(fifo)
          /\ cqLog' = Call("deQueue", 0, TRUE, isFull, headIdx, -1, -1)
  /\ UNCHANGED <<capacity, data>>
  /\ UNCHANGED exceptQueue

CallFront ==
  /\ cqLog' = Call("Front", 0, Front, isFull, headIdx, -1, -1)
  /\ UNCHANGED <<capacity, data, count, headIdx, fifo>>
  /\ UNCHANGED exceptQueue

CallRear ==
  /\ cqLog' = Call("Rear", 0, Rear, isFull, headIdx, -1, -1)
  /\ UNCHANGED <<capacity, data, count, headIdx, fifo>>
  /\ UNCHANGED exceptQueue

CallIsEmpty ==
  /\ cqLog' = Call("isEmpty", 0, isEmpty, isFull, headIdx, -1, -1)
  /\ UNCHANGED <<capacity, data, count, headIdx, fifo>>
  /\ UNCHANGED exceptQueue

CallIsFull ==
  /\ cqLog' = Call("isFull", 0, isFull, isFull, headIdx, -1, -1)
  /\ UNCHANGED <<capacity, data, count, headIdx, fifo>>
  /\ UNCHANGED exceptQueue

NextQueue ==
  \/ \E value \in Values : enQueue(value)
  \/ deQueue
  \/ CallFront
  \/ CallRear
  \/ CallIsEmpty
  \/ CallIsFull

SpecQueue == InitQueue /\ [][NextQueue]_vars

\* C15: the queue is a bounded FIFO: Front() is the oldest value enqueued with
\* success and not yet dequeued, Rear() the newest, both are -1 on an empty
\* queue, and an enQueue that follows a deQueue on a full queue succeeds and
\* writes the slot that deQueue freed.
C15_BoundedFifo ==
  /\ Len(fifo) <= capacity
  /\ Front = (IF fifo = <<>> THEN EmptyAnswer ELSE Head(fifo))
  /\ Rear = (IF fifo = <<>> THEN EmptyAnswer ELSE fifo[Len(fifo)])
  /\ cqLog.op = "Front" => cqLog.ret = Front
  /\ cqLog.op = "Rear" => cqLog.ret = Rear
  /\ (cqLog.op = "enQueue" /\ cqLog.reuse # -1) =>
        /\ cqLog.ret = TRUE
        /\ cqLog.slot = cqLog.reuse
        /\ Rear = cqLog.arg

\* an enQueue right after a deQueue on a full queue of capacity 3 wrote the
\* freed slot in front of the head, as in main()
C15_Witness ==
  /\ capacity = 3
  /\ cqLog.op = "enQueue" /\ cqLog.reuse # -1
  /\ headIdx > 0 /\ cqLog.slot < headIdx
  /\ Front # Rear

\* ========================================================================
\* HashMap (src/DesignHashMap.cpp)
\* ========================================================================
\*## map idle others
OthersIdleForMap == ParkingIdle /\ QueueIdle /\ RotateIdle /\ MergeIdle /\ EncodeIdle /\ FormulaIdle /\ MineIdle
\*## end

\* number of buckets
size == 10000

Absent == -1

\* the keys put, looked up and removed: two that share bucket 1, one alone,
\* and a negative one
Keys == {1, 10001, 2, -1}

\* the % of C++ on int: the result has the sign of the dividend
Remainder(a, b) == IF a >= 0 THEN a % b ELSE -((-a) % b)

getHashIdx(key) == Remainder(key, size)

\* the bucket indices the explored keys can name inside the array
Touched == {getHashIdx(k) : k \in Keys} \cap (0..(size - 1))

InArray(idx) == idx >= 0 /\ idx < size

\* positions of `key` in a chain
Hits(chain, key) == {i \in 1..Len(chain) : chain[i][1] = key}
FirstHit(chain, key) ==
  CHOOSE i \in Hits(chain, key) : \A j \in Hits(chain, key) : i <= j

\* put on one chain: update the first entry of the key or append one
PutChain(chain, key, value) ==
  IF Hits(chain, key) # {}
  THEN [chain EXCEPT ![FirstHit(chain, key)] = <<key, value>>]
  ELSE Append(chain, <<key, value>>)

\* get on one chain
GetChain(chain, key) ==
  IF chain = <<>> THEN Absent
  ELSE IF Hits(chain, key) # {} THEN chain[FirstHit(chain, key)][2]
  ELSE Absent

\* remove on one chain: erase the first entry of the key
RemoveChain(chain, key) ==
  IF Hits(chain, key) # {}
  THEN LET h == FirstHit(chain, key)
       IN [i \in 1..(Len(chain) - 1) |->
             IF i < h THEN chain[i] ELSE chain[i + 1]]
  ELSE chain

MapCall(op, key, r) == [op |-> op, key |-> key, ret |-> r]

InitMap ==
  /\ OthersIdleForMap
  /\ bucket = [idx \in Touched |-> <<>>]
  /\ hmCrashed = FALSE
  /\ dict = [k \in Keys |-> Absent]
  /\ hmLog = MapCall("new", 0, 0)

\* bucket[idx] with idx outside the array is undefined behaviour: the process
\* is ended by the access, or the access goes through and finds no entry
put(key, value) ==
  /\ ~hmCrashed
  /\ dict' = [dict EXCEPT ![key] = value]
  /\ IF InArray(getHashIdx(key))
     THEN /\ bucket' = [bucket EXCEPT ![getHashIdx(key)] =
                          PutChain(@, key, value)]
          /\ hmCrashed' = FALSE
     ELSE /\ bucket' = bucket
          /\ hmCrashed' \in BOOLEAN
  /\ hmLog' = MapCall("put", key, value)
  /\ UNCHANGED exceptMap

get(key) ==
  /\ ~hmCrashed
  /\ IF InArray(getHashIdx(key))
     THEN /\ hmLog' = MapCall("get", key, GetChain(bucket[getHashIdx(key)], key))
          /\ hmCrashed' = FALSE
     ELSE /\ hmCrashed' \in BOOLEAN
          /\ \E garbage \in {Absent} \cup (1..MaxValue) :
                hmLog' = MapCall("get", key, garbage)
  /\ UNCHANGED <<bucket, dict>>
  /\ UNCHANGED exceptMap

remove(key) ==
  /\ ~hmCrashed
  /\ dict' = [dict EXCEPT ![key] = Absent]
  /\ IF InArray(getHashIdx(key))
     THEN /\ bucket' = [bucket EXCEPT ![getHashIdx(key)] = RemoveChain(@, key)]
          /\ hmCrashed' = FALSE
     ELSE /\ bucket' = bucket
          /\ hmCrashed' \in BOOLEAN
  /\ hmLog' = MapCall("remove", key, 0)
  /\ UNCHANGED exceptMap

NextMap ==
  \/ \E key \in Keys, value \in 1..MaxValue : put(key, value)
  \/ \E key \in Keys : get(key)
  \/ \E key \in Keys : remove(key)

SpecMap == InitMap /\ [][NextMap]_vars

\* C16: after any sequence of put/get/remove, get(key) returns the value of
\* the last put of the key not followed by its remove, or -1; a put never
\* makes a second entry for a key; calls on one key leave the others alone.
C16_MapRefinesDictionary ==
  /\ ~hmCrashed
  /\ hmLog.op = "get" => hmLog.ret = dict[hmLog.key]
  /\ \A k \in Keys : InArray(getHashIdx(k)) =>
        /\ GetChain(bucket[getHashIdx(k)], k) = dict[k]
        /\ Cardinality(Hits(bucket[getHashIdx(k)], k)) <= 1

\* ========================================================================
\* rotateGrid (src/rotate_layer_matrix.cpp)
\* ========================================================================
\*## rotate idle others
OthersIdleForRotate == ParkingIdle /\ QueueIdle /\ MapIdle /\ MergeIdle /\ EncodeIdle /\ FormulaIdle /\ MineIdle
\*## end

Min2(a, b) == IF a <= b THEN a ELSE b

\* the m x n matrix holding 1 .. m*n row by row, as in main()
Numbered(m, n) == [i \in 0..(m - 1) |-> [j \in 0..(n - 1) |-> i * n + j + 1]]

\* the cells j = from, from+step, ... while the loop condition holds
RowRun(i, from, to) ==      \* for (j = from; j <= to; j++)
  [x \in 1..Max2(0, to - from + 1) |-> <<i, from + x - 1>>]
RowRunDown(i, from, to) ==  \* for (j = from; j >= to; j--)
  [x \in 1..Max2(0, from - to + 1) |-> <<i, from - x + 1>>]
ColRun(j, from, to) ==      \* for (i = from; i <= to; i++)
  [x \in 1..Max2(0, to - from + 1) |-> <<from + x - 1, j>>]
ColRunDown(j, from, to) ==  \* for (i = from; i > to; i--)
  [x \in 1..Max2(0, from - to) |-> <<from - x + 1, j>>]

\* the cells STEP 2 pushes into temp: the left column is visited but its
\* elements are not pushed
ExtractedCells(top, bottom, left, right) ==
  RowRun(top, left, right)
    \o ColRun(right, top + 1, bottom)
    \o (IF bottom > top THEN RowRunDown(bottom, right - 1, left) ELSE <<>>)

\* the cells STEP 3 assigns, in the order it assigns them
PlacedCells(top, bottom, left, right) ==
  RowRun(top, left, right)
    \o ColRun(right, top + 1, bottom)
    \o (IF bottom > top THEN RowRunDown(bottom, right - 1, left) ELSE <<>>)
    \o (IF right > left THEN ColRunDown(left, bottom - 1, top) ELSE <<>>)

\* the successive assignments grid[cell] = temp[start++ % temp.size()]
RECURSIVE PlaceBack(_, _, _, _, _)
PlaceBack(g, cells, temp, start, x) ==
  IF x > Len(cells) THEN g
  ELSE PlaceBack([g EXCEPT ![cells[x][1]][cells[x][2]] =
                              temp[(start % Len(temp)) + 1]],
                 cells, temp, start + 1, x + 1)

rotateLayer(g, lay, k) ==
  LET m == NumRows(g)
      n == NumCols(g)
      top == lay
      bottom == m - 1 - lay
      left == lay
      right == n - 1 - lay
      perimeter == 2 * (right - left + bottom - top)
      kk == k % perimeter
      cells == ExtractedCells(top, bottom, left, right)
      temp == [x \in 1..Len(cells) |-> g[cells[x][1]][cells[x][2]]]
  IN IF kk = 0 THEN g
     ELSE PlaceBack(g, PlacedCells(top, bottom, left, right), temp, kk, 1)

NumLayers(g) == Min2(NumRows(g), NumCols(g)) \div 2

InitRotate ==
  /\ OthersIdleForRotate
  /\ \E m \in 1..MaxSide, n \in 1..MaxSide : rotGrid = Numbered(m, n)
  /\ rotK \in 0..MaxRot
  /\ layer = 0
  /\ rotPc = "layers"
  /\ rotOrig = rotGrid

\* one iteration of the loop of rotateGrid
RotateOneLayer ==
  /\ rotPc = "layers"
  /\ layer < NumLayers(rotGrid)
  /\ rotGrid' = rotateLayer(rotGrid, layer, rotK)
  /\ layer' = layer + 1
  /\ UNCHANGED <<rotK, rotPc, rotOrig>>
  /\ UNCHANGED exceptRotate

RotateReturn ==
  /\ rotPc = "layers"
  /\ layer >= NumLayers(rotGrid)
  /\ rotPc' = "done"
  /\ UNCHANGED <<rotGrid, rotK, layer, rotOrig>>
  /\ UNCHANGED exceptRotate

NextRotate ==
  \/ RotateOneLayer
  \/ RotateReturn

SpecRotate == InitRotate /\ [][NextRotate]_vars

\* the cells of a layer clockwise from its top-left corner
Ring(g, lay) ==
  LET top == lay
      bottom == NumRows(g) - 1 - lay
      left == lay
      right == NumCols(g) - 1 - lay
  IN RowRun(top, left, right)
       \o ColRun(right, top + 1, bottom)
       \o RowRunDown(bottom, right - 1, left)
       \o ColRunDown(left, bottom - 1, top)

At(g, c) == g[c[1]][c[2]]

RingCellSet(g, lay) == {Ring(g, lay)[x] : x \in 1..Len(Ring(g, lay))}

Rotated4x4 ==
  LET rows == << <<3, 4, 8, 12>>, <<5, 11, 10, 16>>,
                 <<9, 6, 7, 15>>, <<1, 2, 14, 13>> >>
  IN [i \in 0..3 |-> [j \in 0..3 |-> rows[i + 1][j + 1]]]

\* C17: rotateGrid(grid, k) gives position i of every layer (clockwise from
\* the top-left corner) the element that was at position (i + k) mod the
\* layer's size, leaves every other cell alone, and turns the 4x4 matrix
\* 1..16 with k = 2 into (3,4,8,12), (5,11,10,16), (9,6,7,15), (1,2,14,13).
C17_LayersRotatedByK ==
  rotPc = "done" =>
     /\ \A lay \in 0..(NumLayers(rotOrig) - 1) :
           LET ring == Ring(rotOrig, lay)
           IN \A x \in 1..Len(ring) :
                 At(rotGrid, ring[x])
                   = At(rotOrig, ring[((x - 1 + rotK) % Len(ring)) + 1])
     /\ \A c \in Cells(rotOrig) :
           (\A lay \in 0..(NumLayers(rotOrig) - 1) :
               c \notin RingCellSet(rotOrig, lay))
             => At(rotGrid, c) = At(rotOrig, c)
     /\ (rotOrig = Numbered(4, 4) /\ rotK = 2) => rotGrid = Rotated4x4

\* ========================================================================
\* Solution::merge (src/merge_overlapping_intervals.cpp)
\* ========================================================================
\*## merge idle others
OthersIdleForMerge == ParkingIdle /\ QueueIdle /\ MapIdle /\ RotateIdle /\ EncodeIdle /\ FormulaIdle /\ MineIdle
\*## end

\* operator< of std::vector<int> on two-element vectors
VecLess(a, b) == a[1] < b[1] \/ (a[1] = b[1] /\ a[2] < b[2])

RECURSIVE InsertSorted(_, _)
InsertSorted(x, sorted) ==
  IF sorted = <<>> THEN <<x>>
  ELSE IF VecLess(Head(sorted), x)
       THEN <<Head(sorted)>> \o InsertSorted(x, Tail(sorted))
       ELSE <<x>> \o sorted

\* sort(intervals.begin(), intervals.end())
RECURSIVE Sorted(_)
Sorted(seq) ==
  IF seq = <<>> THEN <<>> ELSE InsertSorted(Head(seq), Sorted(Tail(seq)))

\* slip: the merged end is the end of the later interval
MergedEndOverwritten(lastEnd, end) == end

\* the end of the merged interval
MergedEnd(lastEnd, end) == Max2(lastEnd, end)

\* the test for starting a new interval
StartsNew(merged, cur) ==
  merged = <<>> \/ merged[Len(merged)][2] < cur[1]

\* the body of the loop for one interval
MergeOne(merged, cur) ==
  IF StartsNew(merged, cur) THEN Append(merged, cur)
  ELSE [merged EXCEPT ![Len(merged)][2] = MergedEnd(@, cur[2])]

Intervals == {<<s, e>> : s \in 0..MaxCoord, e \in 0..MaxCoord} \cap
             {iv \in (0..MaxCoord) \X (0..MaxCoord) : iv[1] <= iv[2]}

InitMerge ==
  /\ OthersIdleForMerge
  /\ intervals \in UNION {[1..len -> Intervals] : len \in 0..MaxIntervals}
  /\ ans = <<>>
  /\ mergeI = 0
  /\ mergePc = "sort"
  /\ mergeInput = intervals

MergeSort ==
  /\ mergePc = "sort"
  /\ intervals' = Sorted(intervals)
  /\ mergePc' = "loop"
  /\ UNCHANGED <<ans, mergeI, mergeInput>>
  /\ UNCHANGED exceptMerge

MergeStep ==
  /\ mergePc = "loop"
  /\ mergeI < Len(intervals)
  /\ ans' = MergeOne(ans, intervals[mergeI + 1])
  /\ mergeI' = mergeI + 1
  /\ UNCHANGED <<intervals, mergePc, mergeInput>>
  /\ UNCHANGED exceptMerge

MergeReturn ==
  /\ mergePc = "loop"
  /\ mergeI >= Len(intervals)
  /\ mergePc' = "done"
  /\ UNCHANGED <<intervals, ans, mergeI, mergeInput>>
  /\ UNCHANGED exceptMerge

NextMerge ==
  \/ MergeSort
  \/ MergeStep
  \/ MergeReturn

SpecMerge == InitMerge /\ [][NextMerge]_vars

\* the points of the line at half-unit steps that a list of closed
\* intervals covers (p stands for p/2)
Covered(list) ==
  {p \in 0..(2 * MaxCoord) :
     \E x \in 1..Len(list) : 2 * list[x][1] <= p /\ p <= 2 * list[x][2]}

\* C18: merge returns intervals sorted by start, each ending strictly before
\* the next starts, whose union is the union of the input intervals.
C18_MergedDisjointSameUnion ==
  mergePc = "done" =>
     /\ \A x \in 1..Len(ans) : ans[x][1] <= ans[x][2]
     /\ \A x \in 1..(Len(ans) - 1) :
           ans[x][1] < ans[x + 1][1] /\ ans[x][2] < ans[x + 1][1]
     /\ Covered(ans) = Covered(mergeInput)

\* an unsorted input of three intervals, one inside another and one only
\* touching, was merged into fewer intervals
C18_Witness ==
  /\ mergePc = "done"
  /\ Len(mergeInput) = 3
  /\ mergeInput # intervals
  /\ Len(ans) < 3
  /\ \E x, y \in 1..3 :
        /\ mergeInput[x][1] < mergeInput[y][1]
        /\ mergeInput[y][2] < mergeInput[x][2]
  /\ \E x, y \in 1..3 : mergeInput[x][2] = mergeInput[y][1] /\ x # y

\* ========================================================================
\* minimalEncode (src/EncodeStrings.cpp)
\* ========================================================================
\*## encode idle others
OthersIdleForEncode == ParkingIdle /\ QueueIdle /\ MapIdle /\ RotateIdle /\ MergeIdle /\ FormulaIdle /\ MineIdle
\*## end

\* the words of main's test, and words whose encodings meet: a short word,
\* and words that hold digits
WordPool ==
  { <<"b","o","b","b","l","e">>, <<"b","o","g","g","l","e">>,
    <<"a","b","c">>,
    <<"a","1","b","c","z">>, <<"a","q","q","q","z">>,
    <<"a","1","2","z">>, <<"a","1","q","z">> }

\* the length of the longest word: from there on encode returns the word
LongestWord == CHOOSE n \in 0..64 :
  /\ \A w \in WordPool : Len(w) <= n
  /\ \E w \in WordPool : Len(w) = n

Digit(n) == <<"0", "1", "2", "3", "4", "5", "6", "7", "8", "9">>[n + 1]

\* std::to_string of a non-negative int
RECURSIVE to_string(_)
to_string(n) ==
  IF n < 10 THEN <<Digit(n)>> ELSE to_string(n \div 10) \o <<Digit(n % 10)>>

encode(word, len) ==
  IF Len(word) <= 2 THEN word
  ELSE LET suffixStart == Len(word) - 1
           middleCount == suffixStart - len
       IN IF middleCount <= 0 THEN word
          ELSE SubSeq(word, 1, len) \o to_string(middleCount)
                 \o <<word[Len(word)]>>

\* m[key] = value
Assigned(m, key, value) ==
  [e \in DOMAIN m \cup {key} |-> IF e = key THEN value ELSE m[e]]

\* m[key].push_back(word)
PushedBack(m, key, word) ==
  Assigned(m, key, IF key \in DOMAIN m THEN Append(m[key], word) ELSE <<word>>)

\* STEP 1, for the words from position x on
RECURSIVE Grouped(_, _, _)
Grouped(list, x, m) ==
  IF x > Len(list) THEN m
  ELSE Grouped(list, x + 1, PushedBack(m, encode(list[x], 1), list[x]))

\* prefixLen[word]++; the int grows without limit, and from LongestWord on
\* encode returns the same string, so the model stops counting there
Incremented(len) == Min2(len + 1, LongestWord)

\* the inner loop over a conflicting wordList, from position x on
RECURSIVE Expanded(_, _, _, _)
Expanded(wordList, x, lens, m) ==
  IF x > Len(wordList) THEN [lens |-> lens, map |-> m]
  ELSE LET word == wordList[x]
           lens2 == [lens EXCEPT ![word] = Incremented(@)]
           newEncoded == encode(word, lens2[word])
       IN Expanded(wordList, x + 1, lens2, PushedBack(m, newEncoded, word))

IsConflict(wordList) == Len(wordList) > 1

WordLists == UNION {[1..len -> WordPool] : len \in 0..MaxWords}

InitEncode ==
  /\ OthersIdleForEncode
  /\ words \in WordLists
  /\ result = NoEntries
  /\ prefixLen = NoEntries
  /\ conflicts = NoEntries
  /\ newConflicts = NoEntries
  /\ pending = {}
  /\ hasConflicts = FALSE
  /\ encPc = "step1"

\* STEP 1 and the initialisation of hasConflicts
EncodeStep1 ==
  /\ encPc = "step1"
  /\ prefixLen' = [w \in {words[x] : x \in 1..Len(words)} |-> 1]
  /\ conflicts' = Grouped(words, 1, NoEntries)
  /\ hasConflicts' = TRUE
  /\ encPc' = "while"
  /\ UNCHANGED <<words, result, newConflicts, pending>>
  /\ UNCHANGED exceptEncode

\* the while test succeeds and a pass begins
PassBegin ==
  /\ encPc = "while"
  /\ hasConflicts
  /\ hasConflicts' = FALSE
  /\ newConflicts' = NoEntries
  /\ pending' = DOMAIN conflicts
  /\ encPc' = "for"
  /\ UNCHANGED <<words, result, prefixLen, conflicts>>
  /\ UNCHANGED exceptEncode

\* one iteration of the for loop over conflicts; an unordered_map visits its
\* entries in an order the program does not control
PassEntry ==
  /\ encPc = "for"
  /\ \E encoded \in pending :
       LET wordList == conflicts[encoded]
           expanded == Expanded(wordList, 1, prefixLen, newConflicts)
       IN /\ pending' = pending \ {encoded}
          /\ IF IsConflict(wordList)
             THEN /\ hasConflicts' = TRUE
                  /\ prefixLen' = expanded.lens
                  /\ newConflicts' = expanded.map
             ELSE /\ newConflicts' = Assigned(newConflicts, encoded, wordList)
                  /\ UNCHANGED <<hasConflicts, prefixLen>>
  /\ UNCHANGED <<words, result, conflicts, encPc>>
  /\ UNCHANGED exceptEncode

\* conflicts = std::move(newConflicts)
PassEnd ==
  /\ encPc = "for"
  /\ pending = {}
  /\ conflicts' = newConflicts
  /\ newConflicts' = NoEntries
  /\ encPc' = "while"
  /\ UNCHANGED <<words, result, prefixLen, pending, hasConflicts>>
  /\ UNCHANGED exceptEncode

\* the while test fails; STEP 3 and the return
BuildResult ==
  /\ encPc = "while"
  /\ ~hasConflicts
  /\ result' = [e \in {k \in DOMAIN conflicts : conflicts[k] # <<>>} |->
                  conflicts[e][1]]
  /\ encPc' = "done"
  /\ UNCHANGED <<words, prefixLen, conflicts, newConflicts, pending,
                 hasConflicts>>
  /\ UNCHANGED exceptEncode

NextEncode ==
  \/ EncodeStep1
  \/ PassBegin
  \/ PassEntry
  \/ PassEnd
  \/ BuildResult

\* the call keeps running until it returns
SpecEncode == InitEncode /\ [][NextEncode]_vars /\ WF_vars(NextEncode)

\* word shares an entry of conflicts with a word at another position
InConflict(word) ==
  \E e \in DOMAIN conflicts :
     \E x, y \in 1..Len(conflicts[e]) : x # y /\ conflicts[e][x] = word

\* C19: minimalEncode returns for every word list; every encoding of the
\* result then stands for exactly one word of the input; and a word's
\* prefix grows only in a pass where its encoding is shared.
C19_TerminatesWithUniqueEncodings ==
  /\ <>(encPc = "done")
  /\ [](encPc = "done" =>
          \A e \in DOMAIN result :
             /\ conflicts[e] = <<result[e]>>
             /\ \E x \in 1..Len(words) : words[x] = result[e])
  /\ [][\A w \in DOMAIN prefixLen :
          (w \in DOMAIN prefixLen' /\ prefixLen'[w] # prefixLen[w])
             => InConflict(w)]_vars

\* ========================================================================
\* solveFormulas (src/FormulaEvaluation.cpp)
\* ========================================================================
\*## formula idle others
OthersIdleForFormula == ParkingIdle /\ QueueIdle /\ MapIdle /\ RotateIdle /\ MergeIdle /\ EncodeIdle /\ MineIdle
\*## end

\* a formula and an expression are sequences of the tokens that white space
\* separates; the decimal strings in use and what stoi makes of them
stoi == ("1" :> 1) @@ ("2" :> 2) @@ ("5" :> 5) @@ ("10" :> 10)

isNumber(token) == token \in DOMAIN stoi

\* the formulas of main's test 2, a formula that closes a cycle with them,
\* one that names its own variable and one without "="
FormulaPool ==
  { <<"a", "=", "b", "+", "c">>, <<"b", "=", "5">>,
    <<"c", "=", "d", "-", "2">>, <<"d", "=", "10">>,
    <<"c", "=", "a", "+", "1">>, <<"a", "=", "a", "+", "1">>,
    <<"b", "5">> }

\* formula.find('='): the position of the first "=", 0 for npos
EqPos(formula) ==
  IF \E x \in 1..Len(formula) : formula[x] = "="
  THEN CHOOSE x \in 1..Len(formula) :
         /\ formula[x] = "="
         /\ \A y \in 1..(x - 1) : formula[y] # "="
  ELSE 0

\* the trimmed text before the "="; the formulas explored name the variable
\* with one token or none
VarOf(formula) == IF EqPos(formula) = 1 THEN "" ELSE formula[1]

\* the trimmed text after the "="
ExprOf(formula) == SubSeq(formula, EqPos(formula) + 1, Len(formula))

\* the parse loop from formula x on: the last formula of a variable stays
RECURSIVE Parsed(_, _, _)
Parsed(list, x, m) ==
  IF x > Len(list) THEN m
  ELSE Parsed(list, x + 1, Assigned(m, VarOf(list[x]), ExprOf(list[x])))

extractVariables(expr) ==
  SelectSeq(expr, LAMBDA token : token # "+" /\ token # "-" /\ ~isNumber(token))

\* the loop of evaluateExpression from token x on; ok is FALSE when
\* "Variable not found" is thrown
RECURSIVE EvaluateFrom(_, _, _, _, _)
EvaluateFrom(expr, x, vals, res, sign) ==
  IF x > Len(expr) THEN [ok |-> TRUE, value |-> res]
  ELSE LET token == expr[x]
       IN IF token = "+" THEN EvaluateFrom(expr, x + 1, vals, res, 1)
          ELSE IF token = "-" THEN EvaluateFrom(expr, x + 1, vals, res, -1)
          ELSE IF isNumber(token)
               THEN EvaluateFrom(expr, x + 1, vals, res + sign * stoi[token], sign)
          ELSE IF token \notin DOMAIN vals
               THEN [ok |-> FALSE, value |-> 0]
          ELSE EvaluateFrom(expr, x + 1, vals, res + sign * vals[token], sign)

evaluateExpression(expr, vals) == EvaluateFrom(expr, 1, vals, 0, 1)

\* slip: the node goes to the front of the order
PushedFront(order, node) == <<node>> \o order

\* topoOrder.push_back(node)
PushedLast(order, node) == Append(order, node)

\* dfs(node, ...) on the sets and the order in st; st.cyclic is set when
\* "Cyclic dependency detected" is thrown, and the throw ends every caller
RECURSIVE dfs(_, _, _)
RECURSIVE DfsNeighbors(_, _, _, _)
dfs(node, g, st) ==
  IF node \in st.recStack THEN [st EXCEPT !.cyclic = TRUE]
  ELSE IF node \in st.visited THEN st
  ELSE LET entered == [st EXCEPT !.visited = @ \cup {node},
                                 !.recStack = @ \cup {node}]
           after == IF node \in DOMAIN g
                    THEN DfsNeighbors(g[node], 1, g, entered)
                    ELSE entered
       IN IF after.cyclic THEN after
          ELSE [after EXCEPT !.recStack = @ \ {node},
                             !.topoOrder = PushedLast(@, node)]

DfsNeighbors(neighbors, x, g, st) ==
  IF x > Len(neighbors) \/ st.cyclic THEN st
  ELSE DfsNeighbors(neighbors, x + 1, g, dfs(neighbors[x], g, st))

FormulaLists == UNION {[1..len -> FormulaPool] : len \in 0..MaxFormulas}

InitFormula ==
  /\ OthersIdleForFormula
  /\ formulas \in FormulaLists
  /\ values = NoEntries
  /\ varToExpr = NoEntries
  /\ graph = NoEntries
  /\ allVars = {}
  /\ visited = {}
  /\ recStack = {}
  /\ topoOrder = <<>>
  /\ unsorted = {}
  /\ evalI = 0
  /\ thrown = "none"
  /\ fPc = "parse"

\* the parse loop
ParseFormulas ==
  /\ fPc = "parse"
  /\ IF \E x \in 1..Len(formulas) : EqPos(formulas[x]) = 0
     THEN /\ thrown' = "Invalid formula"
          /\ fPc' = "error"
          /\ UNCHANGED <<varToExpr, allVars>>
     ELSE /\ varToExpr' = Parsed(formulas, 1, NoEntries)
          /\ allVars' = {VarOf(formulas[x]) : x \in 1..Len(formulas)}
          /\ fPc' = "build"
          /\ UNCHANGED thrown
  /\ UNCHANGED <<formulas, values, graph, visited, recStack, topoOrder,
                 unsorted, evalI>>
  /\ UNCHANGED exceptFormula

\* the loop that builds the dependency graph
BuildGraph ==
  /\ fPc = "build"
  /\ graph' = [var \in {v \in DOMAIN varToExpr :
                          extractVariables(varToExpr[v]) # <<>>} |->
                 extractVariables(varToExpr[var])]
  /\ allVars' = allVars \cup
       UNION {{extractVariables(varToExpr[v])[x] :
                 x \in 1..Len(extractVariables(varToExpr[v]))} :
              v \in DOMAIN varToExpr}
  /\ fPc' = "check"
  /\ UNCHANGED <<formulas, values, varToExpr, visited, recStack, topoOrder,
                 unsorted, evalI, thrown>>
  /\ UNCHANGED exceptFormula

\* the check for missing variables, and the sets of the sort
CheckMissing ==
  /\ fPc = "check"
  /\ IF \E var \in allVars : var \notin DOMAIN varToExpr
     THEN /\ thrown' = "Missing definition"
          /\ fPc' = "error"
          /\ UNCHANGED unsorted
     ELSE /\ unsorted' = allVars
          /\ fPc' = "sort"
          /\ UNCHANGED thrown
  /\ UNCHANGED <<formulas, values, varToExpr, graph, allVars, visited,
                 recStack, topoOrder, evalI>>
  /\ UNCHANGED exceptFormula

\* one iteration of the loop over allVars, an unordered_set: the program
\* does not control which variable comes next
SortFrom ==
  /\ fPc = "sort"
  /\ \E var \in unsorted :
       LET st == [visited |-> visited, recStack |-> recStack,
                  topoOrder |-> topoOrder, cyclic |-> FALSE]
           after == IF var \notin visited THEN dfs(var, graph, st) ELSE st
       IN /\ unsorted' = unsorted \ {var}
          /\ visited' = after.visited
          /\ recStack' = after.recStack
          /\ topoOrder' = after.topoOrder
          /\ IF after.cyclic
             THEN thrown' = "Cyclic dependency" /\ fPc' = "error"
             ELSE UNCHANGED <<thrown, fPc>>
  /\ UNCHANGED <<formulas, values, varToExpr, graph, allVars, evalI>>
  /\ UNCHANGED exceptFormula

\* the loop over allVars ends
SortDone ==
  /\ fPc = "sort"
  /\ unsorted = {}
  /\ fPc' = "eval"
  /\ UNCHANGED <<formulas, values, varToExpr, graph, allVars, visited,
                 recStack, topoOrder, unsorted, evalI, thrown>>
  /\ UNCHANGED exceptFormula

\* one iteration of the evaluation loop
EvaluateNext ==
  /\ fPc = "eval"
  /\ evalI < Len(topoOrder)
  /\ LET var == topoOrder[evalI + 1]
         res == evaluateExpression(varToExpr[var], values)
     IN IF res.ok
        THEN /\ values' = Assigned(values, var, res.value)
             /\ evalI' = evalI + 1
             /\ UNCHANGED <<thrown, fPc>>
        ELSE /\ thrown' = "Variable not found"
             /\ fPc' = "error"
             /\ UNCHANGED <<values, evalI>>
  /\ UNCHANGED <<formulas, varToExpr, graph, allVars, visited, recStack,
                 topoOrder, unsorted>>
  /\ UNCHANGED exceptFormula

\* return values
FormulaReturn ==
  /\ fPc = "eval"
  /\ evalI >= Len(topoOrder)
  /\ fPc' = "done"
  /\ UNCHANGED <<formulas, values, varToExpr, graph, allVars, visited,
                 recStack, topoOrder, unsorted, evalI, thrown>>
  /\ UNCHANGED exceptFormula

NextFormula ==
  \/ ParseFormulas
  \/ BuildGraph
  \/ CheckMissing
  \/ SortFrom
  \/ SortDone
  \/ EvaluateNext
  \/ FormulaReturn

SpecFormula == InitFormula /\ [][NextFormula]_vars

\* ---- what the formulas say, read off the token lists directly ----------

IsOperand(token) == token # "+" /\ token # "-"

IsName(token) == IsOperand(token) /\ token \notin {"1", "2", "5", "10"}

\* the variables that have a formula, and the formula that counts for one
Defined == {formulas[x][1] : x \in 1..Len(formulas)}

LastFormula(v) ==
  formulas[CHOOSE x \in 1..Len(formulas) :
             /\ formulas[x][1] = v
             /\ \A y \in (x + 1)..Len(formulas) : formulas[y][1] # v]

\* the variables the formula of v names
References(v) ==
  {LastFormula(v)[x] : x \in {y \in 3..Len(LastFormula(v)) :
                                IsName(LastFormula(v)[y])}}

\* w is reached from v in at most n steps of References
RECURSIVE ReachedWithin(_, _, _)
ReachedWithin(v, w, n) ==
  /\ n > 0
  /\ \/ w \in References(v)
     \/ \E u \in References(v) \cap Defined : ReachedWithin(u, w, n - 1)

\* every formula has an "=", every named variable has a formula, and no
\* variable depends on itself
WellFormed ==
  /\ \A x \in 1..Len(formulas) :
        Len(formulas[x]) >= 2 /\ formulas[x][2] = "="
  /\ \A v \in Defined : References(v) \subseteq Defined
  /\ \A v \in Defined : ~ReachedWithin(v, v, Cardinality(Defined))

\* the sign that applies to the operand at position x of formula f
SignAt(f, x) ==
  LET ops == {y \in 3..(x - 1) : ~IsOperand(f[y])}
  IN IF ops = {} THEN 1
     ELSE LET last == CHOOSE y \in ops : \A z \in ops : z <= y
          IN IF f[last] = "-" THEN -1 ELSE 1

Numeral(token) ==
  CASE token = "1" -> 1 [] token = "2" -> 2 [] token = "5" -> 5
    [] token = "10" -> 10

\* the signed sum of the operands of f from position x on, over vals
RECURSIVE SignedSum(_, _, _)
SignedSum(f, x, vals) ==
  IF x > Len(f) THEN 0
  ELSE SignedSum(f, x + 1, vals) +
       (IF ~IsOperand(f[x]) THEN 0
        ELSE SignAt(f, x) * (IF IsName(f[x]) THEN vals[f[x]] ELSE Numeral(f[x])))

\* main's test 2
Test2 ==
  { <<"a", "=", "b", "+", "c">>, <<"b", "=", "5">>,
    <<"c", "=", "d", "-", "2">>, <<"d", "=", "10">> }

\* C20: when every named variable has a formula and no variable depends on
\* itself, solveFormulas throws nothing, every variable comes in the order
\* of evaluation after all the variables its formula names, and each
\* returned value is the formula's value over the returned values; the
\* four formulas of main's test 2 give a = 13.
C20_EvaluatedAfterDependencies ==
  WellFormed =>
    /\ fPc # "error"
    /\ fPc \in {"eval", "done"} =>
         /\ {topoOrder[x] : x \in 1..Len(topoOrder)} = Defined
         /\ \A x \in 1..Len(topoOrder) :
               References(topoOrder[x]) \subseteq
                 {topoOrder[y] : y \in 1..(x - 1)}
         /\ DOMAIN values = {topoOrder[x] : x \in 1..evalI}
    /\ fPc = "done" =>
         /\ DOMAIN values = Defined
         /\ \A v \in Defined : values[v] = SignedSum(LastFormula(v), 3, values)
         /\ {formulas[x] : x \in 1..Len(formulas)} = Test2 => values["a"] = 13

\* main's test 2 was solved from "a" down: a was put last and came out 13
C20_Witness ==
  /\ fPc = "done"
  /\ formulas = << <<"a", "=", "b", "+", "c">>, <<"b", "=", "5">>,
                   <<"c", "=", "d", "-", "2">>, <<"d", "=", "10">> >>
  /\ topoOrder = <<"b", "d", "c", "a">>
  /\ values["a"] = 13 /\ values["c"] = 8

\* the variables that any formula of v names
AllReferences(v) ==
  UNION {{formulas[x][y] : y \in {z \in 3..Len(formulas[x]) :
                                    IsName(formulas[x][z])}} :
         x \in {w \in 1..Len(formulas) : formulas[w][1] = v}}

\* w is reached from v in at most n steps of AllReferences
RECURSIVE DependsWithin(_, _, _)
DependsWithin(v, w, n) ==
  /\ n > 0
  /\ \/ w \in AllReferences(v)
     \/ \E u \in AllReferences(v) \cap Defined : DependsWithin(u, w, n - 1)

\* some formula names a variable that has no formula
NamesUndefined == \E v \in Defined : ~(AllReferences(v) \subseteq Defined)

\* some variable depends on itself
HasCycle == \E v \in Defined : DependsWithin(v, v, Cardinality(Defined))

\* C21: when the formulas hold a cyclic dependency (a variable that names
\* itself included) or name a variable without a formula, solveFormulas
\* throws and never comes to evaluate or return values, whichever variable
\* the sort starts from.
C21_ErrorOnCycleOrUndefined ==
  (NamesUndefined \/ HasCycle) => fPc \notin {"eval", "done"}

\* ========================================================================
\* Minesweeper (src/minesweeper.cpp)
\* ========================================================================
\*## mine idle others
OthersIdleForMine == ParkingIdle /\ QueueIdle /\ MapIdle /\ RotateIdle /\ MergeIdle /\ EncodeIdle /\ FormulaIdle
\*## end

\* slip: the four straight directions only
directionsWithoutDiagonals == << <<-1, 0>>, <<0, -1>>, <<0, 1>>, <<1, 0>> >>

directions8 ==
  << <<-1, -1>>, <<-1, 0>>, <<-1, 1>>,
     <<0, -1>>,             <<0, 1>>,
     <<1, -1>>,  <<1, 0>>,  <<1, 1>> >>

BoardCells(nRows, nCols) == (0..(nRows - 1)) \X (0..(nCols - 1))

InBoard(r, c, nRows, nCols) == r >= 0 /\ r < nRows /\ c >= 0 /\ c < nCols

\* preComputeMines: a cell that is no mine gets one count for every pair of
\* a mine and a direction that leads from the mine to it
preComputeMines(b, nRows, nCols) ==
  [cell \in BoardCells(nRows, nCols) |->
     IF b[cell] = "M" THEN 0
     ELSE Cardinality(
            {pair \in BoardCells(nRows, nCols) \X DOMAIN directions8 :
               /\ b[pair[1]] = "M"
               /\ pair[1][1] + directions8[pair[2]][1] = cell[1]
               /\ pair[1][2] + directions8[pair[2]][2] = cell[2]})]

\* '0' + mines
DigitChar(mines) == Digit(mines)

\* dfsReveal, and its loop over the directions from direction d on
RECURSIVE dfsReveal(_, _, _, _, _, _)
RECURSIVE RevealAround(_, _, _, _, _, _, _)
dfsReveal(b, counts, nRows, nCols, clickRow, clickCol) ==
  IF ~InBoard(clickRow, clickCol, nRows, nCols) THEN b
  ELSE IF b[<<clickRow, clickCol>>] # "E" THEN b
  ELSE LET mines == counts[<<clickRow, clickCol>>]
       IN IF mines > 0
          THEN [b EXCEPT ![<<clickRow, clickCol>>] = DigitChar(mines)]
          ELSE RevealAround([b EXCEPT ![<<clickRow, clickCol>>] = "B"],
                            counts, nRows, nCols, clickRow, clickCol, 1)

RevealAround(b, counts, nRows, nCols, clickRow, clickCol, d) ==
  IF d > Len(directions8) THEN b
  ELSE RevealAround(dfsReveal(b, counts, nRows, nCols,
                              clickRow + directions8[d][1],
                              clickCol + directions8[d][2]),
                    counts, nRows, nCols, clickRow, clickCol, d + 1)

\* boards of 'E' and 'M' cells, the board without rows included
BoardShapes ==
  {<<0, 0>>} \cup
  {s \in (1..MaxBoardCells) \X (1..MaxBoardCells) : s[1] * s[2] <= MaxBoardCells}

InitMine ==
  /\ OthersIdleForMine
  /\ \E s \in BoardShapes :
       /\ boardRows = s[1]
       /\ boardCols = s[2]
       /\ board \in [BoardCells(s[1], s[2]) -> {"E", "M"}]
  /\ mineCounts = NoEntries

\* the board and the counts that updateBoard leaves after a click
Updated(b, counts, nRows, nCols, clickRow, clickCol) ==
  IF nRows = 0 \/ ~InBoard(clickRow, clickCol, nRows, nCols)
  THEN [board |-> b, mineCounts |-> counts]
  ELSE LET counted == IF counts = NoEntries
                      THEN preComputeMines(b, nRows, nCols)
                      ELSE counts
       IN [mineCounts |-> counted,
           board |-> IF b[<<clickRow, clickCol>>] = "M"
                     THEN [b EXCEPT ![<<clickRow, clickCol>>] = "X"]
                     ELSE dfsReveal(b, counted, nRows, nCols,
                                    clickRow, clickCol)]

\* updateBoard(board, {clickRow, clickCol})
updateBoard(clickRow, clickCol) ==
  LET after == Updated(board, mineCounts, boardRows, boardCols,
                       clickRow, clickCol)
  IN /\ board' = after.board
     /\ mineCounts' = after.mineCounts
     /\ UNCHANGED <<boardRows, boardCols>>
     /\ UNCHANGED exceptMine

\* the clicks explored: every cell, and positions off each edge
ClickRows == -1..boardRows
ClickCols == -1..boardCols

Click == \E r \in ClickRows, c \in ClickCols : updateBoard(r, c)

NextMine == Click

SpecMine == InitMine /\ [][NextMine]_vars

\* ---- what a click is to do, read off the board ---------------------------

AllCells == DOMAIN board

Neighbours8(cell) ==
  {n \in AllCells :
     /\ n # cell
     /\ n[1] - cell[1] \in {-1, 0, 1}
     /\ n[2] - cell[2] \in {-1, 0, 1}}

\* a mine, clicked ('X') or not ('M')
IsMine(b, cell) == b[cell] \in {"M", "X"}

AdjacentMines(b, cell) ==
  Cardinality({n \in Neighbours8(cell) : IsMine(b, n)})

Shown(n) ==
  CASE n = 0 -> "B" [] n = 1 -> "1" [] n = 2 -> "2" [] n = 3 -> "3"
    [] n = 4 -> "4" [] n = 5 -> "5" [] n = 6 -> "6" [] n = 7 -> "7"
    [] n = 8 -> "8"

\* the cells a reveal from the cells of set reaches: the neighbours of its
\* cells without adjacent mines, and so on
RECURSIVE RevealedFrom(_, _)
RevealedFrom(b, set) ==
  LET more == set \cup
        UNION {Neighbours8(cell) : cell \in {x \in set : AdjacentMines(b, x) = 0}}
  IN IF more = set THEN set ELSE RevealedFrom(b, more)

\* the board after a click at clk on board b
AfterClick(b, clk) ==
  IF clk \notin AllCells THEN b
  ELSE IF b[clk] = "M" THEN [b EXCEPT ![clk] = "X"]
  ELSE IF b[clk] = "E"
       THEN [cell \in AllCells |->
               IF cell \in RevealedFrom(b, {clk}) /\ b[cell] = "E"
               THEN Shown(AdjacentMines(b, cell))
               ELSE b[cell]]
  ELSE b

\* the board a click at <<r, c>> leaves
Clicked(r, c) ==
  Updated(board, mineCounts, boardRows, boardCols, r, c).board

\* C22: on every board that clicks have led to, a click on 'M' changes that
\* cell alone, to 'X'; a click on 'E' turns the cells it reveals (the
\* clicked cell, and all neighbours of every revealed cell without adjacent
\* mines) into the digit of their adjacent mines or 'B'; no other 'M' cell
\* changes; a click on a revealed cell or outside the board changes nothing.
C22_ClickRevealsRegion ==
  \A r \in ClickRows, c \in ClickCols :
     /\ Clicked(r, c) = AfterClick(board, <<r, c>>)
     /\ \A cell \in AllCells :
          /\ board[cell] = "M" =>
               Clicked(r, c)[cell] = IF cell = <<r, c>> THEN "X" ELSE "M"
          /\ board[cell] \notin {"M", "E"} => Clicked(r, c)[cell] = board[cell]

\* a click has revealed a blank region up to a digit next to a mine, with
\* an unrevealed cell and a clicked mine elsewhere on the board
C22_Witness ==
  /\ \E cell \in AllCells :
        board[cell] = "B" /\ \E n \in Neighbours8(cell) : board[n] = "B"
  /\ \E cell \in AllCells : board[cell] \in {"1", "2"}
  /\ \E cell \in AllCells : board[cell] = "M"
  /\ \E cell \in AllCells : board[cell] = "E"
  /\ \E cell \in AllCells : board[cell] = "X"

\* ========================================================================
\* findOptimalSpot: accumulators, phases and traversals
\* ========================================================================

\* all traversals of the running query have finished
TraversalsFinished ==
  \/ pc = "traverse" /\ spot > Len(parkingSpots)
  \/ pc = "done"

\* the positions in spots of the sources that reach c
Reaching(g, spots, c) ==
  {k \in 1..Len(spots) : ShortestHops(g, spots[k], c) # Unreached}

\* the sum of the hop distances to c from the sources that reach it
RECURSIVE SumOfReaching(_, _, _, _)
SumOfReaching(g, spots, k, c) ==
  IF k > Len(spots) THEN 0
  ELSE (IF k \in Reaching(g, spots, c) THEN ShortestHops(g, spots[k], c) ELSE 0)
       + SumOfReaching(g, spots, k + 1, c)

\* C23: in the optimized (streaming) engine, once all traversals have
\* finished, reachCount of every non-Obstacle cell, Source cells included,
\* is the number of sources that reach it (a source reaches its own cell
\* in 0 hops) and totalDist is the sum of their hop distances.
C23_AccumulatorsCountEverySource ==
  (engine = "optimized" /\ TraversalsFinished) =>
     \A c \in Cells(grid) :
        grid[c[1]][c[2]] # Obstacle =>
          /\ reachCount[c[1]][c[2]] =
               Cardinality(Reaching(grid, parkingSpots, c))
          /\ totalDist[c[1]][c[2]] = SumOfReaching(grid, parkingSpots, 1, c)

\* the queries on the smaller grids, each running on until it returns
FairInit == Init /\ NumRows(grid) * NumCols(grid) <= MaxLiveCells

FairSpec == FairInit /\ [][Next]_vars /\ WF_vars(Next)

\* the steps of one query: Initialized, the traversal of source 1 to k in
\* turn, then the selection, which begins only when all k have finished
\* (the standard engine then holds k distance maps)
PhaseStep ==
  LET k == Len(parkingSpots)
  IN \/ pc = "init" /\ pc' = "traverse" /\ spot' = 1
     \/ pc = "traverse" /\ pc' = "bfs" /\ spot <= k /\ spot' = spot
     \/ pc = "bfs" /\ pc' = "bfs" /\ spot' = spot
     \/ pc = "bfs" /\ pc' = "traverse" /\ spot' = spot + 1
     \/ /\ pc = "traverse" /\ pc' = "done"
        /\ spot = k + 1
        /\ engine = "standard" => Len(allDistances) = k
        /\ \/ ret' = NotFound /\ bestR' = NoCell
           \/ ret' # NotFound /\ bestR' # NoCell /\ ret' = bestDist'
     \/ pc = "done" /\ pc' = "init"

\* C24: a query goes through Initialized, the k traversals in turn and the
\* selection in this order; the selection starts only after all k
\* traversals have finished and ends in exactly one of a selected cell or
\* NotFound; and every query that has begun comes to that end.
C24_PhasesInOrder ==
  /\ [][PhaseStep]_vars
  /\ (pc = "init") ~> (pc = "done")

\* a query over two sources has gone through both traversals and selected
C24_Witness ==
  /\ pc = "done"
  /\ Len(parkingSpots) = 2
  /\ spot = 3
  /\ ret # NotFound

\* the accumulators as findOptimalSpot constructs them
FreshAccumulators(g) ==
  [all |-> <<>>, totalDist |-> ConstMap(g, 0), reachCount |-> ConstMap(g, 0)]

\* C25: in the optimized (streaming) engine the accumulators after all
\* traversals, and the cell and value selected from them, are those of the
\* traversals run and folded in any other order; in the standard
\* (materialized) engine a traversal leaves every distance map stored
\* before it as it was and stores its own in the slot of its source.
C25_TraversalsIndependent ==
  /\ [](engine = "optimized" /\ pc = "done" =>
          \A p \in Permutations(1..Len(parkingSpots)) :
             LET spots == Reorder(parkingSpots, p)
                 acc == RunTraversals("optimized", grid, spots, 1,
                                      FreshAccumulators(grid))
             IN /\ acc.totalDist = totalDist
                /\ acc.reachCount = reachCount
                /\ Outcome(SelectLoop("optimized", grid, Len(spots), acc.all,
                                      acc.totalDist, acc.reachCount, 1,
                                      [bestDist |-> INT_MAX, bestR |-> NoCell,
                                       bestC |-> NoCell, compared |-> {}]))
                     = <<bestDist, bestR, bestC>>)
  /\ [][engine = "standard" /\ pc \in {"traverse", "bfs"} =>
          /\ \A k \in 1..Len(allDistances) :
                k <= Len(allDistances') /\ allDistances'[k] = allDistances[k]
          /\ Len(allDistances') # Len(allDistances) =>
                /\ Len(allDistances') = spot
                /\ allDistances'[spot] = distance]_vars

\* the optimized engine has folded the traversals of three sources that
\* all reach some cell at different distances, and selected a cell
C25_Witness ==
  /\ engine = "optimized" /\ pc = "done"
  /\ Len(parkingSpots) = 3
  /\ bestR # NoCell
  /\ \E c \in Cells(grid) :
        reachCount[c[1]][c[2]] = 3 /\ totalDist[c[1]][c[2]] >= 4

\* the cells of a queue
InQueue(queue) == {queue[x] : x \in 1..Len(queue)}

\* a step of a traversal: the frontier starts as the source alone, at
\* distance 0; a cell is pushed only while it has no distance, the push
\* gives it one, and no cell is pushed twice in one step; a distance once
\* given stays; the optimized engine counts a cell at most once per step
\* and only as it is pushed
TraversalStep ==
  /\ (pc = "traverse" /\ pc' = "bfs") =>
        /\ q' = <<parkingSpots[spot]>>
        /\ \A c \in Cells(grid) :
              distance'[c[1]][c[2]] =
                IF c = parkingSpots[spot] THEN 0 ELSE Unreached
  /\ (pc = "bfs" /\ pc' = "bfs") =>
        LET pushed == SubSeq(q', Len(q), Len(q'))
        IN /\ q # <<>>
           /\ q' = Tail(q) \o pushed
           /\ Cardinality(InQueue(pushed)) = Len(pushed)
           /\ \A c \in Cells(grid) :
                 /\ distance[c[1]][c[2]] # Unreached =>
                      distance'[c[1]][c[2]] = distance[c[1]][c[2]]
                 /\ c \in InQueue(pushed) <=>
                      /\ distance[c[1]][c[2]] = Unreached
                      /\ distance'[c[1]][c[2]] # Unreached
                 /\ engine = "optimized" =>
                      reachCount'[c[1]][c[2]] = reachCount[c[1]][c[2]] +
                        (IF c \in InQueue(pushed) THEN 1 ELSE 0)

\* C26: every traversal comes to an empty frontier; a cell is enqueued at
\* most once (only while it has no distance, which the enqueueing assigns
\* and nothing changes afterwards); and the optimized engine adds to
\* reachCount of a cell at most once in a traversal.
C26_TraversalTerminates ==
  /\ [][TraversalStep]_vars
  /\ [](pc = "bfs" => \A c \in InQueue(q) : distance[c[1]][c[2]] # Unreached)
  /\ (pc = "bfs") ~> (pc = "bfs" /\ q = <<>>)

\* a traversal of the optimized engine has ended with an empty frontier
\* after reaching cells three hops away
C26_Witness ==
  /\ engine = "optimized"
  /\ pc = "bfs" /\ q = <<>>
  /\ \E c \in Cells(grid) : distance[c[1]][c[2]] = 3
  /\ \E c \in Cells(grid) : reachCount[c[1]][c[2]] = 2

\* C27: no step of a query, in either engine, changes a cell of the grid:
\* when findOptimalSpot returns, with a cell or with NotFound, the grid is
\* the one it was called on.
C27_GridUnchanged ==
  [][/\ DOMAIN grid' = DOMAIN grid
     /\ \A i \in DOMAIN grid :
          /\ DOMAIN grid'[i] = DOMAIN grid[i]
          /\ \A j \in DOMAIN grid[i] : grid'[i][j] = grid[i][j]]_vars

\* both engines have returned on the same grid, the standard engine with
\* a cell and the optimized engine with NotFound
C27_Witness ==
  /\ BothDone
  /\ results["standard"].ret # NotFound
  /\ results["optimized"].ret = NotFound
  /\ Len(parkingSpots) >= 2

\* ========================================================================
\* MyCircularQueue: bounds and rejected calls
\* ========================================================================

\* what a call may do to the queue: enQueue on a full queue and deQueue on
\* an empty one answer false and leave count, headIdx and the elements as
\* they were, and so does every call of Front, Rear, isEmpty and isFull
RejectedOrReadOnly ==
  /\ (cqLog'.op = "enQueue" /\ count = capacity) =>
        cqLog'.ret = FALSE /\ UNCHANGED <<count, headIdx, data, fifo>>
  /\ (cqLog'.op = "deQueue" /\ count = 0) =>
        cqLog'.ret = FALSE /\ UNCHANGED <<count, headIdx, data, fifo>>
  /\ cqLog'.op \in {"Front", "Rear", "isEmpty", "isFull"} =>
        UNCHANGED <<capacity, count, headIdx, data, fifo>>
  /\ cqLog'.op \notin {"new", "none"} => capacity' = capacity

\* C28: for every capacity k >= 1 and after any calls, 0 <= count <= k and
\* 0 <= headIdx < k; enQueue on a full queue and deQueue on an empty queue
\* return false and change neither count nor headIdx nor the elements;
\* Front, Rear, isEmpty and isFull change nothing.
C28_BoundsAndRejectedCalls ==
  /\ [](capacity >= 1 =>
          /\ 0 <= count /\ count <= capacity
          /\ 0 <= headIdx /\ headIdx < capacity
          /\ DOMAIN data = 0..(capacity - 1))
  /\ [][RejectedOrReadOnly]_vars

\* enQueue was refused on a full queue whose head had wrapped past slot 0
C28_Witness ==
  /\ cqLog.op = "enQueue" /\ cqLog.ret = FALSE
  /\ count = capacity
  /\ capacity >= 2
  /\ headIdx > 0

====
